---- MODULE Spec2Model ----
(***************************************************************************)
(* A model of the oxygen dynamic-value codec: the DocumentValue tree, the  *)
(* ToDashValue builder, the canonical encoder (DocumentValue::serialize    *)
(* driven by serde_cbor / serde_json), the generic decoder (ValueVisitor), *)
(* the Document record and DocumentValue::bytes_as_arrays.                 *)
(*                                                                         *)
(* Text is modelled as the sequence of its UTF-8 bytes (<<97, 98>> is      *)
(* "ab"), a HashMap<String, _> as a function from keys to values, a Vec as *)
(* a sequence.  Every tagged value is a record [k |-> tag, v |-> payload]. *)
(***************************************************************************)
EXTENDS Integers, Sequences, FiniteSets, TLC

VARIABLES op, arg, res, src, to_walk, pc

vars == <<op, arg, res, src, to_walk, pc>>

(***************************************************************************)
(* Bounds of the model.                                                    *)
(***************************************************************************)
MaxMapSize == 3
MaxArrLen == 2
MaxFields == 2
MaxCalls == 4

(***************************************************************************)
(* enum DocumentValue                                                      *)
(***************************************************************************)
Null == [k |-> "Null", v |-> 0]
Bool(b) == [k |-> "Bool", v |-> b]
String(s) == [k |-> "String", v |-> s]
Float(f) == [k |-> "Float", v |-> f]
Integer(i) == [k |-> "Integer", v |-> i]
UInteger(u) == [k |-> "UInteger", v |-> u]
Version(n) == [k |-> "Version", v |-> n]
Map(m) == [k |-> "Map", v |-> m]
Array(a) == [k |-> "Array", v |-> a]
Identifier(data) == [k |-> "Identifier", v |-> data]
Bytes(b) == [k |-> "Bytes", v |-> b]
StaticBytes(b) == [k |-> "StaticBytes", v |-> b]

is_container(val) == val.k \in {"Array", "Map"}

(***************************************************************************)
(* Results: Ok(v), Err(kind), or a panic (process abort).                  *)
(***************************************************************************)
Ok(x) == [k |-> "Ok", v |-> x]
Err(e) == [k |-> "Err", v |-> e]
Panic(msg) == [k |-> "Panic", v |-> msg]

(***************************************************************************)
(* The calls a Serialize impl makes on a serde Serializer, as a tree.      *)
(* if_human_readable is the branch on serializer.is_human_readable().      *)
(***************************************************************************)
Call(kind, payload) == [k |-> kind, v |-> payload]
if_human_readable(text, binary) == Call("if_human_readable", <<text, binary>>)

(***************************************************************************)
(* bs58::encode(..).into_string() and base64::encode(..)                   *)
(***************************************************************************)
Base58Alphabet ==
    << 49, 50, 51, 52, 53, 54, 55, 56, 57, 65, 66, 67, 68, 69, 70, 71,
       72, 74, 75, 76, 77, 78, 80, 81, 82, 83, 84, 85, 86, 87, 88, 89,
       90, 97, 98, 99, 100, 101, 102, 103, 104, 105, 106, 107, 109, 110, 111, 112,
       113, 114, 115, 116, 117, 118, 119, 120, 121, 122 >>

Base64Alphabet ==
    << 65, 66, 67, 68, 69, 70, 71, 72, 73, 74, 75, 76, 77, 78, 79, 80,
       81, 82, 83, 84, 85, 86, 87, 88, 89, 90, 97, 98, 99, 100, 101, 102,
       103, 104, 105, 106, 107, 108, 109, 110, 111, 112, 113, 114, 115, 116, 117, 118,
       119, 120, 121, 122, 48, 49, 50, 51, 52, 53, 54, 55, 56, 57, 43, 47 >>

RECURSIVE BigEndian(_)
BigEndian(bytes) ==
    IF bytes = <<>> THEN 0
    ELSE BigEndian(SubSeq(bytes, 1, Len(bytes) - 1)) * 256 + bytes[Len(bytes)]

RECURSIVE Base58Digits(_)
Base58Digits(n) ==
    IF n = 0 THEN <<>>
    ELSE Base58Digits(n \div 58) \o <<Base58Alphabet[(n % 58) + 1]>>

RECURSIVE LeadingZeros(_)
LeadingZeros(bytes) ==
    IF bytes # <<>> /\ Head(bytes) = 0 THEN 1 + LeadingZeros(Tail(bytes)) ELSE 0

bs58_encode(bytes) ==
    [i \in 1..LeadingZeros(bytes) |-> Base58Alphabet[1]] \o Base58Digits(BigEndian(bytes))

RECURSIVE base64_encode(_)
base64_encode(bytes) ==
    LET c(i) == Base64Alphabet[i + 1]
        pad == 61
    IN  IF bytes = <<>> THEN <<>>
        ELSE IF Len(bytes) = 1
             THEN <<c(bytes[1] \div 4), c((bytes[1] % 4) * 16), pad, pad>>
        ELSE IF Len(bytes) = 2
             THEN LET n == (bytes[1] * 256 + bytes[2]) * 4
                  IN  <<c(n \div 4096), c((n \div 64) % 64), c(n % 64), pad>>
        ELSE LET n == (bytes[1] * 256 + bytes[2]) * 256 + bytes[3]
             IN  <<c(n \div 262144), c((n \div 4096) % 64), c((n \div 64) % 64), c(n % 64)>>
                 \o base64_encode(SubSeq(bytes, 4, Len(bytes)))

(***************************************************************************)
(* Serialize impls of the domain wrappers                                  *)
(***************************************************************************)
BytesSerialize(b) ==
    if_human_readable(Call("str", base64_encode(b)), Call("bytes", b))

StaticBytesSerialize(b) ==
    if_human_readable(Call("str", base64_encode(b)), Call("bytes", b))

IdInternalSerialize(data) ==
    if_human_readable(Call("str", bs58_encode(data)), Call("bytes", data))

IdentifierSerialize(data) ==
    Call("newtype_struct", <<"identifier", IdInternalSerialize(data)>>)

VersionSerialize(n) ==
    Call("newtype_struct", <<"Version", Call("u32", n)>>)

(***************************************************************************)
(* The canonical key order of DocumentValue::serialize's Map arm           *)
(***************************************************************************)
Cmp(a, b) == IF a < b THEN "Less" ELSE IF a = b THEN "Equal" ELSE "Greater"

RECURSIVE SliceCmp(_, _)
SliceCmp(a, b) ==
    IF a = <<>> /\ b = <<>> THEN "Equal"
    ELSE IF a = <<>> THEN "Less"
    ELSE IF b = <<>> THEN "Greater"
    ELSE IF Head(a) # Head(b) THEN Cmp(Head(a), Head(b))
    ELSE SliceCmp(Tail(a), Tail(b))

\* a comparator that stops at the length comparison
KeyOrderingLengthOnly(key_a, key_b) == Cmp(Len(key_a), Len(key_b))

KeyOrdering(key_a, key_b) ==
    LET len_comparison == Cmp(Len(key_a), Len(key_b))
    IN  CASE len_comparison = "Less" -> "Less"
          [] len_comparison = "Equal" -> SliceCmp(key_a, key_b)
          [] len_comparison = "Greater" -> "Greater"

\* slice::sort_by is stable: an element goes after those it does not precede
RECURSIVE InsertSorted(_, _)
InsertSorted(s, x) ==
    IF s = <<>> THEN <<x>>
    ELSE IF KeyOrdering(x, Head(s)) = "Less" THEN <<x>> \o s
    ELSE <<Head(s)>> \o InsertSorted(Tail(s), x)

\* the sort left out: entries in iteration order
sorted_by_iteration_order(s) == s

RECURSIVE sorted_by(_)
sorted_by(s) ==
    IF s = <<>> THEN <<>>
    ELSE InsertSorted(sorted_by(SubSeq(s, 1, Len(s) - 1)), s[Len(s)])

(***************************************************************************)
(* HashMap iteration.  The order is arbitrary; seed stands for the state   *)
(* of the hasher and the insertion history, and selects one permutation of *)
(* the keys.  Seeds lists enough seeds to reach every permutation of a map *)
(* of at most MaxMapSize entries.                                          *)
(***************************************************************************)
RECURSIVE SetToSeq(_)
SetToSeq(S) ==
    IF S = {} THEN <<>>
    ELSE LET x == CHOOSE y \in S : TRUE IN <<x>> \o SetToSeq(S \ {x})

RECURSIVE NthPermutation(_, _)
NthPermutation(s, n) ==
    IF s = <<>> THEN <<>>
    ELSE LET i == (n % Len(s)) + 1
         IN  <<s[i]>> \o NthPermutation(SubSeq(s, 1, i - 1) \o SubSeq(s, i + 1, Len(s)),
                                        n \div Len(s))

RECURSIVE Factorial(_)
Factorial(n) == IF n <= 1 THEN 1 ELSE n * Factorial(n - 1)

Seeds == 0..(Factorial(MaxMapSize) - 1)

iter(map, seed) == NthPermutation(SetToSeq(DOMAIN map), seed)

\* HashMap::iter_mut: the orders in which the entries can be yielded
iter_mut(map) ==
    { keys \in [1..Cardinality(DOMAIN map) -> DOMAIN map] :
        \A i, j \in 1..Cardinality(DOMAIN map) : i # j => keys[i] # keys[j] }

(***************************************************************************)
(* impl Serialize for DocumentValue                                        *)
(***************************************************************************)
RECURSIVE DocumentValueSerialize(_, _)
DocumentValueSerialize(self, seed) ==
    CASE self.k = "Bool" -> Call("bool", self.v)
      [] self.k = "String" -> Call("str", self.v)
      [] self.k = "Bytes" -> BytesSerialize(self.v)
      [] self.k = "StaticBytes" -> StaticBytesSerialize(self.v)
      [] self.k = "Float" -> Call("f64", self.v)
      [] self.k = "Integer" -> Call("i64", self.v)
      [] self.k = "UInteger" -> Call("u64", self.v)
      [] self.k = "Version" -> Call("u32", self.v)
      [] self.k = "Identifier" -> IdentifierSerialize(self.v)
      [] self.k = "Array" ->
            Call("seq", [i \in 1..Len(self.v) |-> DocumentValueSerialize(self.v[i], seed)])
      [] self.k = "Map" ->
            LET sorted == sorted_by(iter(self.v, seed))
            IN  Call("map", [i \in 1..Len(sorted) |->
                     <<Call("str", sorted[i]),
                       DocumentValueSerialize(self.v[sorted[i]], seed)>>])
      [] self.k = "Null" -> Call("none", 0)

(***************************************************************************)
(* The wire.  An item is what serde_cbor (binary) or serde_json (text)     *)
(* writes for one call: null, bool, int (CBOR major type 0 or 1 by sign, a *)
(* JSON number), float, text, bytes, array, map (a sequence of key/value   *)
(* item pairs in emission order).                                          *)
(***************************************************************************)
Item(kind, payload) == [k |-> kind, v |-> payload]

RECURSIVE Emit(_, _)
Emit(call, human_readable) ==
    CASE call.k = "bool" -> Item("bool", call.v)
      [] call.k \in {"i64", "u64", "u32"} -> Item("int", call.v)
      [] call.k = "f64" -> Item("float", call.v)
      [] call.k = "str" -> Item("text", call.v)
      [] call.k = "bytes" ->
            IF human_readable
            THEN Item("array", [i \in 1..Len(call.v) |-> Item("int", call.v[i])])
            ELSE Item("bytes", call.v)
      [] call.k \in {"none", "unit"} -> Item("null", 0)
      [] call.k = "newtype_struct" -> Emit(call.v[2], human_readable)
      [] call.k = "if_human_readable" ->
            IF human_readable THEN Emit(call.v[1], human_readable)
            ELSE Emit(call.v[2], human_readable)
      [] call.k = "seq" ->
            Item("array", [i \in 1..Len(call.v) |-> Emit(call.v[i], human_readable)])
      [] call.k = "map" ->
            Item("map", [i \in 1..Len(call.v) |->
                <<Emit(call.v[i][1], human_readable), Emit(call.v[i][2], human_readable)>>])

\* serde_json::to_string(&value) / serde_cbor::to_vec(&value) of a DocumentValue
Encode(value, human_readable, seed) ==
    Emit(DocumentValueSerialize(value, seed), human_readable)

(***************************************************************************)
(* The Value Builder: impl serde::Serializer for ToDashValue, with its two *)
(* accumulators SerializeVec and SerializeMap.                             *)
(***************************************************************************)
None == [k |-> "None", v |-> 0]
Some(x) == [k |-> "Some", v |-> x]

RECURSIVE ToDashValue(_, _)

\* key.serialize(ToStringSerializer): a string key is taken as it is
ToStringSerializer(key) ==
    IF key.k = "str" THEN Ok(key.v) ELSE Err("SerializationError")

SerializeMap_new(ignore_version) ==
    [skip_version |-> ignore_version, map |-> <<>>, next_key |-> None]

\* HashMap::insert
insert(map, key, value) ==
    [x \in DOMAIN map \cup {key} |-> IF x = key THEN value ELSE map[x]]

\* the accumulator after the call and the call's result
Step(self, result) == [self |-> self, r |-> result]

\* a serialize_key that keeps a key already pending
serialize_key_keeping_first(self, key) ==
    LET name == ToStringSerializer(key)
    IN  IF name.k = "Ok"
        THEN Step([self EXCEPT !.next_key = IF self.next_key.k = "None" THEN Some(name.v)
                                            ELSE self.next_key], Ok(0))
        ELSE Step(self, name)

serialize_key(self, key) ==
    LET name == ToStringSerializer(key)
    IN  IF name.k = "Ok"
        THEN Step([self EXCEPT !.next_key = Some(name.v)], Ok(0))
        ELSE Step(self, name)

\* serialize_value without the skip_version test
serialize_value_keep_version(self, value) ==
    LET key == self.next_key
        taken == [self EXCEPT !.next_key = None]
        new_value == ToDashValue(value, FALSE)
    IN  IF key.k = "None"
        THEN Step(taken, Panic("serialize_value called before serialize_key"))
        ELSE IF new_value.k # "Ok" THEN Step(taken, new_value)
        ELSE Step([taken EXCEPT !.map = insert(taken.map, key.v, new_value.v)], Ok(0))

serialize_value(self, value) ==
    LET key == self.next_key
        taken == [self EXCEPT !.next_key = None]
        new_value == ToDashValue(value, FALSE)
    IN  IF key.k = "None"
        THEN Step(taken, Panic("serialize_value called before serialize_key"))
        ELSE IF new_value.k # "Ok" THEN Step(taken, new_value)
        ELSE IF new_value.v.k = "Version" /\ self.skip_version THEN Step(taken, Ok(0))
        ELSE Step([taken EXCEPT !.map = insert(taken.map, key.v, new_value.v)], Ok(0))

\* serde's provided SerializeMap::serialize_entry, which serialize_field calls
serialize_entry(self, key, value) ==
    LET keyed == serialize_key(self, key)
    IN  IF keyed.r.k # "Ok" THEN keyed ELSE serialize_value(keyed.self, value)

SerializeMap_end(self) == Ok(Map(self.map))

\* the entries of a map or struct, in order, until one fails
RECURSIVE SerializeMapEntries(_, _)
SerializeMapEntries(self, entries) ==
    IF entries = <<>> THEN SerializeMap_end(self)
    ELSE LET step == serialize_entry(self, Head(entries)[1], Head(entries)[2])
         IN  IF step.r.k # "Ok" THEN step.r
             ELSE SerializeMapEntries(step.self, Tail(entries))

\* SerializeVec::serialize_element
serialize_element(self, value) ==
    LET new_value == ToDashValue(value, FALSE)
    IN  IF new_value.k # "Ok" THEN Step(self, new_value)
        ELSE Step(Append(self, new_value.v), Ok(0))

SerializeVec_end(self) == Ok(Array(self))

RECURSIVE SerializeVecElements(_, _)
SerializeVecElements(self, elements) ==
    IF elements = <<>> THEN SerializeVec_end(self)
    ELSE LET step == serialize_element(self, Head(elements))
         IN  IF step.r.k # "Ok" THEN step.r
             ELSE SerializeVecElements(step.self, Tail(elements))

\* `u as u32`; every integer of the model is below 2^31
as_u32(u) == u

\* a wrapper that hands back the inner value when its shape is not the expected one
serialize_newtype_struct_falling_through(skip_version, name, value) ==
    LET inner == ToDashValue(value, skip_version)
    IN  IF inner.k # "Ok" THEN inner
        ELSE IF name = "Version" /\ inner.v.k = "UInteger" THEN Ok(Version(as_u32(inner.v.v)))
        ELSE IF name = "StaticBytes" /\ inner.v.k = "StaticBytes" THEN Ok(StaticBytes(inner.v.v))
        ELSE IF name = "Bytes" /\ inner.v.k = "Bytes" THEN Ok(Bytes(inner.v.v))
        ELSE IF name = "identifier" /\ inner.v.k = "Bytes" THEN Ok(Identifier(inner.v.v))
        ELSE inner

serialize_newtype_struct(skip_version, name, value) ==
    LET inner == ToDashValue(value, skip_version)
    IN  IF name = "Version"
        THEN IF inner.k # "Ok" THEN inner
             ELSE IF inner.v.k = "UInteger" THEN Ok(Version(as_u32(inner.v.v)))
             ELSE Panic("expected Value::Bytes")
        ELSE IF name = "StaticBytes"
        THEN IF inner.k # "Ok" THEN inner
             ELSE IF inner.v.k = "StaticBytes" THEN Ok(StaticBytes(inner.v.v))
             ELSE Panic("expected Value::StaticBytes")
        ELSE IF name = "Bytes"
        THEN IF inner.k # "Ok" THEN inner
             ELSE IF inner.v.k = "Bytes" THEN Ok(Bytes(inner.v.v))
             ELSE Panic("expected Value::Bytes")
        ELSE IF name = "identifier"
        THEN IF inner.k # "Ok" THEN inner
             ELSE IF inner.v.k = "Bytes" THEN Ok(Identifier(inner.v.v))
             ELSE Panic("expected Value::Bytes")
        ELSE inner

\* the payload built and the variant tag dropped
serialize_newtype_variant_payload(skip_version, value) == ToDashValue(value, skip_version)

serialize_newtype_variant(skip_version, value) == Err("Unsupported")

ToDashValue(call, skip_version) ==
    CASE call.k = "bool" -> Ok(Bool(call.v))
      [] call.k \in {"i8", "i16", "i32", "i64"} -> Ok(Integer(call.v))
      [] call.k \in {"u8", "u16", "u32", "u64"} -> Ok(UInteger(call.v))
      [] call.k \in {"f32", "f64"} -> Ok(Float(call.v))
      [] call.k = "char" -> Ok(String(<<call.v>>))
      [] call.k = "str" -> Ok(String(call.v))
      [] call.k = "bytes" -> Ok(Bytes(call.v))
      [] call.k \in {"unit", "unit_struct", "none"} -> Ok(Null)
      [] call.k = "unit_variant" -> Ok(String(call.v))
      [] call.k = "newtype_struct" ->
            serialize_newtype_struct(skip_version, call.v[1], call.v[2])
      [] call.k = "newtype_variant" -> serialize_newtype_variant(skip_version, call.v)
      [] call.k = "some" -> ToDashValue(call.v, skip_version)
      [] call.k \in {"seq", "tuple"} -> SerializeVecElements(<<>>, call.v)
      [] call.k \in {"tuple_struct", "tuple_variant", "struct_variant"} -> Err("Unsupported")
      [] call.k \in {"map", "struct"} ->
            SerializeMapEntries(SerializeMap_new(skip_version), call.v)
      [] call.k = "if_human_readable" -> ToDashValue(call.v[2], skip_version)
      [] call.k = "custom" -> Err("SerializationError")

(***************************************************************************)
(* The Generic Decoder: impl Deserialize for DocumentValue (ValueVisitor), *)
(* driven by deserialize_any of serde_cbor or serde_json.                  *)
(***************************************************************************)
RECURSIVE DocumentValueDeserialize(_)

\* a byte string taken for an Identifier
visit_bytes_as_identifier(v) == Ok(Identifier(v))

visit_bytes(v) == Ok(Bytes(v))

\* a continuation byte of a UTF-8 sequence, within lo..hi
Continuation(v, i, lo, hi) == i <= Len(v) /\ v[i] >= lo /\ v[i] <= hi

\* the number of bytes of the well-formed UTF-8 sequence at the head of v, or 0
Utf8SequenceLength(v) ==
    LET b == v[1]
    IN  IF b < 128 THEN 1
        ELSE IF b >= 194 /\ b <= 223
        THEN IF Continuation(v, 2, 128, 191) THEN 2 ELSE 0
        ELSE IF b >= 224 /\ b <= 239
        THEN IF /\ Continuation(v, 2, IF b = 224 THEN 160 ELSE 128, IF b = 237 THEN 159 ELSE 191)
                /\ Continuation(v, 3, 128, 191)
             THEN 3 ELSE 0
        ELSE IF b >= 240 /\ b <= 244
        THEN IF /\ Continuation(v, 2, IF b = 240 THEN 144 ELSE 128, IF b = 244 THEN 143 ELSE 191)
                /\ Continuation(v, 3, 128, 191)
                /\ Continuation(v, 4, 128, 191)
             THEN 4 ELSE 0
        ELSE 0

\* std::str::from_utf8: the bytes when they are well-formed UTF-8
RECURSIVE from_utf8_from(_, _)
from_utf8_from(v, rest) ==
    IF rest = <<>> THEN Ok(v)
    ELSE LET n == Utf8SequenceLength(rest)
         IN  IF n = 0 THEN Err("DeserializationError")
             ELSE from_utf8_from(v, SubSeq(rest, n + 1, Len(rest)))

from_utf8(v) == from_utf8_from(v, v)

\* String::deserialize of a map key: text, or a byte string that is UTF-8
KeyString(item) ==
    IF item.k = "text" THEN Ok(item.v)
    ELSE IF item.k = "bytes" THEN from_utf8(item.v)
    ELSE Err("DeserializationError")

RECURSIVE visit_seq(_, _)
visit_seq(vec, elements) ==
    IF elements = <<>> THEN Ok(Array(vec))
    ELSE LET elem == DocumentValueDeserialize(Head(elements))
         IN  IF elem.k # "Ok" THEN elem
             ELSE visit_seq(Append(vec, elem.v), Tail(elements))

RECURSIVE visit_map(_, _)
visit_map(map, entries) ==
    IF entries = <<>> THEN Ok(Map(map))
    ELSE LET key == KeyString(Head(entries)[1])
             value == DocumentValueDeserialize(Head(entries)[2])
         IN  IF key.k # "Ok" THEN key
             ELSE IF value.k # "Ok" THEN value
             ELSE visit_map(insert(map, key.v, value.v), Tail(entries))

\* Only visit_bool, visit_i64, visit_str, visit_string, visit_none, visit_some,
\* visit_unit, visit_bytes, visit_seq and visit_map are overridden; an
\* unsigned integer reaches serde's default visit_u64 and a float the default
\* visit_f64, which reject the item as an invalid type.
DocumentValueDeserialize(item) ==
    CASE item.k = "bool" -> Ok(Bool(item.v))
      [] item.k = "int" ->
            IF item.v < 0 THEN Ok(Integer(item.v)) ELSE Err("DeserializationError")
      [] item.k = "float" -> Err("DeserializationError")
      [] item.k = "text" -> Ok(String(item.v))
      [] item.k = "null" -> Ok(Null)
      [] item.k = "bytes" -> visit_bytes(item.v)
      [] item.k = "array" -> visit_seq(<<>>, item.v)
      [] item.k = "map" -> visit_map(<<>>, item.v)

(***************************************************************************)
(* struct Document (example/document.rs), its derived Serialize and        *)
(* Deserialize, to_bytes and from_bytes.                                   *)
(***************************************************************************)
ProtocolVersionKey == <<36, 112, 114, 111, 116, 111, 99, 111, 108, 86, 101, 114, 115, 105, 111, 110>>
IdKey == <<36, 105, 100>>
TypeKey == <<36, 116, 121, 112, 101>>
RevisionKey == <<36, 114, 101, 118, 105, 115, 105, 111, 110>>
DataContractIdKey == <<36, 100, 97, 116, 97, 67, 111, 110, 116, 114, 97, 99, 116, 73, 100>>
OwnerIdKey == <<36, 111, 119, 110, 101, 114, 73, 100>>
CreatedAtKey == <<36, 99, 114, 101, 97, 116, 101, 100, 65, 116>>
UpdatedAtKey == <<36, 117, 112, 100, 97, 116, 101, 100, 65, 116>>

DocumentKeys ==
    { ProtocolVersionKey, IdKey, TypeKey, RevisionKey, DataContractIdKey, OwnerIdKey,
      CreatedAtKey, UpdatedAtKey }

Document(protocol_version, id, document_type, revision, data_contract_id, owner_id, created_at, updated_at, data) ==
    [ protocol_version |-> protocol_version, id |-> id, document_type |-> document_type,
      revision |-> revision, data_contract_id |-> data_contract_id, owner_id |-> owner_id,
      created_at |-> created_at, updated_at |-> updated_at, data |-> data ]

\* #[derive(Serialize)] with a #[serde(flatten)] field: a map of the renamed
\* fields in declaration order, absent timestamps skipped, then the entries
\* the flattened data emits (a Map's entries, nothing for Null; any other
\* value cannot be flattened and fails the serialization).
DocumentSerialize(self, seed) ==
    LET entry(key, call) == << <<Call("str", key), call>> >>
        optional(key, field) ==
            IF field.k = "None" THEN <<>> ELSE entry(key, Call("some", Call("i64", field.v)))
        data == DocumentValueSerialize(self.data, seed)
    IN  IF data.k \notin {"map", "none"}
        THEN Call("custom", "can only flatten structs and maps")
        ELSE Call("map",
                 entry(ProtocolVersionKey, VersionSerialize(self.protocol_version))
                 \o entry(IdKey, IdentifierSerialize(self.id))
                 \o entry(TypeKey, Call("str", self.document_type))
                 \o entry(RevisionKey, Call("u32", self.revision))
                 \o entry(DataContractIdKey, IdentifierSerialize(self.data_contract_id))
                 \o entry(OwnerIdKey, IdentifierSerialize(self.owner_id))
                 \o optional(CreatedAtKey, self.created_at)
                 \o optional(UpdatedAtKey, self.updated_at)
                 \o (IF data.k = "map" THEN data.v ELSE <<>>))

to_bytes(self, seed) ==
    LET dynamic_value == ToDashValue(DocumentSerialize(self, seed), TRUE)
    IN  IF dynamic_value.k # "Ok" THEN dynamic_value
        ELSE Ok(Encode(dynamic_value.v, FALSE, seed))

\* a binary branch that takes the bytes of a text item as well
IdentifierDeserialize_text_as_bytes(item) ==
    LET data == DocumentValueDeserialize(item)
    IN  IF data.k # "Ok" THEN data
        ELSE IF data.v.k \in {"Bytes", "String"} THEN Ok(data.v.v)
        ELSE Err("DeserializationError")

\* impl Deserialize for Identifier, binary branch
IdentifierDeserialize(item) ==
    LET data == DocumentValueDeserialize(item)
    IN  IF data.k # "Ok" THEN data
        ELSE IF data.v.k = "Bytes" THEN Ok(data.v.v)
        ELSE Err("DeserializationError")

\* u32::deserialize; every integer of the model is below 2^31
U32Deserialize(item) ==
    IF item.k = "int" /\ item.v >= 0 THEN Ok(item.v) ELSE Err("DeserializationError")

\* String::deserialize
StringDeserialize(item) == KeyString(item)

\* Option<i64>::deserialize
OptionI64Deserialize(item) ==
    IF item.k = "null" THEN Ok(None)
    ELSE IF item.k = "int" THEN Ok(Some(item.v))
    ELSE Err("DeserializationError")

\* the entries whose key is not a field name, collected for the flattened data
RECURSIVE OtherEntries(_)
OtherEntries(entries) ==
    IF entries = <<>> THEN <<>>
    ELSE IF Head(entries)[1].k \in {"text", "bytes"} /\ Head(entries)[1].v \in DocumentKeys
         THEN OtherEntries(Tail(entries))
         ELSE <<Head(entries)>> \o OtherEntries(Tail(entries))

\* the default of a field the input leaves out: Default::default() for
\* #[serde(default)], None for an Option, an error otherwise
Version_default == 0

\* #[derive(Deserialize)] with a #[serde(flatten)] field, through serde_cbor
from_bytes(bytes) ==
    IF bytes.k # "map" THEN Err("DeserializationError")
    ELSE
    LET entries == bytes.v
        at(key) == { i \in 1..Len(entries) :
                        entries[i][1].k \in {"text", "bytes"} /\ entries[i][1].v = key }
        present(key) == at(key) # {}
        item(key) == entries[CHOOSE i \in at(key) : TRUE][2]
        missing == Err("DeserializationError")
        protocol_version ==
            IF present(ProtocolVersionKey) THEN U32Deserialize(item(ProtocolVersionKey))
            ELSE Ok(Version_default)
        id == IF present(IdKey) THEN IdentifierDeserialize(item(IdKey)) ELSE missing
        document_type == IF present(TypeKey) THEN StringDeserialize(item(TypeKey)) ELSE missing
        revision == IF present(RevisionKey) THEN U32Deserialize(item(RevisionKey)) ELSE missing
        data_contract_id ==
            IF present(DataContractIdKey) THEN IdentifierDeserialize(item(DataContractIdKey))
            ELSE missing
        owner_id == IF present(OwnerIdKey) THEN IdentifierDeserialize(item(OwnerIdKey)) ELSE missing
        created_at ==
            IF present(CreatedAtKey) THEN OptionI64Deserialize(item(CreatedAtKey)) ELSE Ok(None)
        updated_at ==
            IF present(UpdatedAtKey) THEN OptionI64Deserialize(item(UpdatedAtKey)) ELSE Ok(None)
        data == visit_map(<<>>, OtherEntries(entries))
    IN  IF \E key \in DocumentKeys : Cardinality(at(key)) > 1
        THEN Err("DeserializationError")
        ELSE IF \/ protocol_version.k # "Ok" \/ id.k # "Ok" \/ document_type.k # "Ok"
                \/ revision.k # "Ok" \/ data_contract_id.k # "Ok" \/ owner_id.k # "Ok"
                \/ created_at.k # "Ok" \/ updated_at.k # "Ok" \/ data.k # "Ok"
        THEN Err("DeserializationError")
        ELSE Ok(Document(protocol_version.v, id.v, document_type.v, revision.v,
                         data_contract_id.v, owner_id.v, created_at.v, updated_at.v, data.v))

(***************************************************************************)
(* DocumentValue::bytes_as_arrays and its work-list.  A `&mut` reference   *)
(* into the tree is modelled as the path of DashValueIndex steps that      *)
(* leads from the root to the referenced node.                             *)
(***************************************************************************)
IndexInt(i) == [k |-> "Int", v |-> i]
IndexString(key) == [k |-> "String", v |-> key]

RECURSIVE Deref(_, _)
Deref(tree, path) ==
    IF path = <<>> THEN tree ELSE Deref(tree.v[Head(path).v], Tail(path))

RECURSIVE Assign(_, _, _)
Assign(tree, path, value) ==
    IF path = <<>> THEN value
    ELSE [tree EXCEPT !.v[Head(path).v] = Assign(tree.v[Head(path).v], Tail(path), value)]

ByteArray(bytes) == Array([i \in 1..Len(bytes) |-> UInteger(bytes[i])])

\* std::mem::take leaves Null (the Default) in *value; only the three byte
\* arms assign it again
replace_bytes_with_array(value) ==
    LET owned == value
        taken == Null
    IN  CASE owned.k = "Identifier" -> ByteArray(owned.v)
          [] owned.k = "Bytes" -> ByteArray(owned.v)
          [] owned.k = "StaticBytes" -> ByteArray(owned.v)
          [] OTHER -> taken

\* a loop body that pushes every container child twice
WalkChildren_pushing_twice(container, order) ==
    [ value |-> [container EXCEPT !.v =
                    [x \in DOMAIN container.v |->
                        IF is_container(container.v[x]) THEN container.v[x]
                        ELSE replace_bytes_with_array(container.v[x])]],
      pushed |-> SelectSeq(order, LAMBDA index : is_container(container.v[index.v]))
                    \o SelectSeq(order, LAMBDA index : is_container(container.v[index.v])) ]

\* the body of one `for v in ..iter_mut()` loop over the children met in the
\* order `order` (a sequence of DashValueIndex): containers are left in place
\* and pushed, any other child is handed to replace_bytes_with_array
WalkChildren(container, order) ==
    [ value |-> [container EXCEPT !.v =
                    [x \in DOMAIN container.v |->
                        IF is_container(container.v[x]) THEN container.v[x]
                        ELSE replace_bytes_with_array(container.v[x])]],
      pushed |-> SelectSeq(order, LAMBDA index : is_container(container.v[index.v])) ]

(***************************************************************************)
(* DocumentValue::get, get_mut and the Index / IndexMut operators.  A      *)
(* DashValueIndex::Int carries a usize, counted from 0; the element it     *)
(* addresses is at position i + 1 of the sequence, and a reference to it   *)
(* is the path <<IndexInt(i + 1)>>.                                        *)
(***************************************************************************)
\* an out-of-range index answered with the last element
get_clamped(self, index) ==
    CASE index.k = "Int" ->
            IF self.k = "Array" /\ self.v # <<>>
            THEN Some(self.v[IF index.v < Len(self.v) THEN index.v + 1 ELSE Len(self.v)])
            ELSE None
      [] index.k = "String" ->
            IF self.k = "Map" /\ index.v \in DOMAIN self.v THEN Some(self.v[index.v]) ELSE None

get(self, index) ==
    CASE index.k = "Int" ->
            IF self.k = "Array" /\ index.v < Len(self.v) THEN Some(self.v[index.v + 1]) ELSE None
      [] index.k = "String" ->
            IF self.k = "Map" /\ index.v \in DOMAIN self.v THEN Some(self.v[index.v]) ELSE None

get_mut(self, index) ==
    CASE index.k = "Int" ->
            IF self.k = "Array" /\ index.v < Len(self.v)
            THEN Some(<<IndexInt(index.v + 1)>>) ELSE None
      [] index.k = "String" ->
            IF self.k = "Map" /\ index.v \in DOMAIN self.v
            THEN Some(<<IndexString(index.v)>>) ELSE None

\* Index::index: &arr[idx] and map.get(key).unwrap() panic on a miss
index(self, idx) ==
    CASE idx.k = "Int" ->
            IF self.k # "Array" THEN Panic("document value isn't a array")
            ELSE IF idx.v < Len(self.v) THEN Ok(self.v[idx.v + 1])
            ELSE Panic("index out of bounds")
      [] idx.k = "String" ->
            IF self.k # "Map" THEN Panic("document isn't a  map")
            ELSE IF idx.v \in DOMAIN self.v THEN Ok(self.v[idx.v])
            ELSE Panic("called Option::unwrap() on a None value")

\* IndexMut::index_mut
index_mut(self, idx) ==
    CASE idx.k = "Int" ->
            IF self.k # "Array" THEN Panic("document value isn't a array")
            ELSE IF idx.v < Len(self.v) THEN Ok(<<IndexInt(idx.v + 1)>>)
            ELSE Panic("index out of bounds")
      [] idx.k = "String" ->
            IF self.k # "Map" THEN Panic("document isn't a  map")
            ELSE IF idx.v \in DOMAIN self.v THEN Ok(<<IndexString(idx.v)>>)
            ELSE Panic("called Option::unwrap() on a None value")

\* value[i1][i2]..: each operator is applied to what the one before returned
RECURSIVE IndexChain(_, _)
IndexChain(self, indices) ==
    IF indices = <<>> THEN Ok(self)
    ELSE LET child == index(self, Head(indices))
         IN  IF child.k # "Ok" THEN child ELSE IndexChain(child.v, Tail(indices))

RECURSIVE IndexMutChain(_, _)
IndexMutChain(self, indices) ==
    IF indices = <<>> THEN Ok(<<>>)
    ELSE LET child == index_mut(self, Head(indices))
         IN  IF child.k # "Ok" THEN child
             ELSE LET rest == IndexMutChain(Deref(self, child.v), Tail(indices))
                  IN  IF rest.k # "Ok" THEN rest ELSE Ok(child.v \o rest.v)

\* value[i1][i2].. = assigned
IndexMutAssign(self, indices, assigned) ==
    LET place == IndexMutChain(self, indices)
    IN  IF place.k # "Ok" THEN place ELSE Ok(Assign(self, place.v, assigned))

(***************************************************************************)
(* Identifier: From<Vec<u8>>, bs58::decode and impl Deserialize, both      *)
(* branches.                                                               *)
(***************************************************************************)
\* the declared length of the fixed-length byte types: StaticBytes<const N: usize = 32>
DeclaredLength == 32

\* Identifier { data: v }, whatever the length of v
Identifier_from(v) == Identifier(v)

\* the value of a base58 character, -1 for a character outside the alphabet
Base58Index(c) ==
    IF \E i \in 1..Len(Base58Alphabet) : Base58Alphabet[i] = c
    THEN (CHOOSE i \in 1..Len(Base58Alphabet) : Base58Alphabet[i] = c) - 1
    ELSE -1

RECURSIVE Base58Number(_)
Base58Number(text) ==
    IF text = <<>> THEN 0
    ELSE Base58Number(SubSeq(text, 1, Len(text) - 1)) * Len(Base58Alphabet)
            + Base58Index(text[Len(text)])

RECURSIVE BigEndianBytes(_)
BigEndianBytes(n) ==
    IF n = 0 THEN <<>> ELSE BigEndianBytes(n \div 256) \o <<n % 256>>

\* the leading '1' characters, each of which stands for a zero byte
RECURSIVE LeadingOnes(_)
LeadingOnes(text) ==
    IF text # <<>> /\ Head(text) = Base58Alphabet[1] THEN 1 + LeadingOnes(Tail(text)) ELSE 0

\* a decoder that takes the text for a number only
bs58_decode_number_only(text) ==
    IF \E i \in 1..Len(text) : Base58Index(text[i]) < 0
    THEN Err("DeserializationError")
    ELSE Ok(BigEndianBytes(Base58Number(text)))

\* bs58::decode(..).into_vec()
bs58_decode(text) ==
    IF \E i \in 1..Len(text) : Base58Index(text[i]) < 0
    THEN Err("DeserializationError")
    ELSE Ok([i \in 1..LeadingOnes(text) |-> 0] \o BigEndianBytes(Base58Number(text)))

\* <&str>::deserialize: serde's StrVisitor has visit_borrowed_str and
\* visit_borrowed_bytes only, so the text must be lent by the deserializer from
\* its input (borrowed); text or bytes handed over in a buffer of the
\* deserializer, and every other item, are an invalid type
StrDeserialize(item, borrowed) ==
    IF ~borrowed THEN Err("DeserializationError")
    ELSE IF item.k = "text" THEN Ok(item.v)
    ELSE IF item.k = "bytes" THEN from_utf8(item.v)
    ELSE Err("DeserializationError")

\* the human-readable branch: <&str>::deserialize, bs58::decode, From
IdentifierDeserializeText(item, borrowed) ==
    LET id_string == StrDeserialize(item, borrowed)
    IN  IF id_string.k # "Ok" THEN id_string
        ELSE LET id_bytes == bs58_decode(id_string.v)
             IN  IF id_bytes.k # "Ok" THEN id_bytes ELSE Ok(Identifier_from(id_bytes.v))

\* Identifier::deserialize(deserializer); borrowed tells whether the
\* deserializer lends the item from its input (serde_json::from_str on a string
\* without escapes, serde_cbor::from_slice) or hands it over in a buffer of its
\* own (serde_json::from_reader, serde_json::from_str on a string with
\* escapes, serde_json::from_value, serde_cbor::from_reader)
Identifier_deserialize(item, human_readable, borrowed) ==
    IF human_readable THEN IdentifierDeserializeText(item, borrowed)
    ELSE LET bytes == IdentifierDeserialize(item)
         IN  IF bytes.k # "Ok" THEN bytes ELSE Ok(Identifier_from(bytes.v))

(***************************************************************************)
(* Inputs                                                                  *)
(***************************************************************************)
Keys == { <<97>>, <<98>>, <<97, 98>>, <<98, 97>> }

LeafValues ==
    { Null, Bool(TRUE), String(<<120>>), Float(1), Integer(-1), Integer(1), UInteger(1),
      Version(1), Bytes(<<1, 2>>), StaticBytes(<<3>>), Identifier(<<0, 11>>) }

ArraysOver(S) == { Array(a) : a \in UNION { [1..n -> S] : n \in 0..MaxArrLen } }

MapsOver(S) ==
    { Map(m) : m \in UNION { [ks -> S] : ks \in { x \in SUBSET Keys : Cardinality(x) <= MaxMapSize } } }

NestedMap ==
    Map([key \in { <<98, 97>>, <<97, 98>>, <<97>> } |->
            IF key = <<97>> THEN Bytes(<<1, 2>>) ELSE String(key)])

SerializePool ==
    { String(<<120>>), Identifier(<<0, 11>>), NestedMap,
      Array(<< Map([key \in { <<98>>, <<97>> } |-> UInteger(Len(key))]) >>) }

SerializeInputs == LeafValues \cup MapsOver(SerializePool)

\* shapes the builder refuses
UnsupportedCalls ==
    { Call("tuple_struct", <<Call("u64", 1)>>),
      Call("newtype_variant", Call("str", <<120>>)),
      Call("tuple_variant", <<Call("u64", 1)>>),
      Call("struct_variant", << <<Call("str", <<97>>), Call("u64", 1)>> >>) }

\* a declared wrapper name around an inner value of another shape
MismatchedCalls ==
    { Call("newtype_struct", <<"Version", Call("i64", -1)>>),
      Call("newtype_struct", <<"Version", Call("str", <<120>>)>>),
      Call("newtype_struct", <<"identifier", Call("u64", 1)>>),
      Call("newtype_struct", <<"Bytes", Call("str", <<120>>)>>),
      Call("newtype_struct", <<"StaticBytes", Call("bytes", <<3>>)>>) }

\* a declared wrapper name around an inner value that fails to build, or that
\* builds to a container or to a leaf of another kind
WrappedCalls ==
    { Call("newtype_struct", <<"Version", Call("tuple_struct", <<Call("u64", 1)>>)>>),
      Call("newtype_struct", <<"identifier", Call("newtype_variant", Call("str", <<120>>))>>),
      Call("newtype_struct", <<"Bytes", Call("struct_variant", <<>>)>>),
      Call("newtype_struct", <<"StaticBytes", Call("tuple_variant", <<>>)>>),
      Call("newtype_struct", <<"Version", Call("map", <<>>)>>),
      Call("newtype_struct", <<"Version", Call("u64", 7)>>),
      Call("newtype_struct", <<"StaticBytes", Call("str", <<120>>)>>),
      Call("newtype_struct", <<"Bytes", Call("u64", 1)>>),
      Call("newtype_struct", <<"identifier", Call("str", <<49, 67>>)>>),
      Call("newtype_struct", <<"identifier", Call("seq", <<Call("u8", 0), Call("u8", 11)>>)>>) }

\* the bytes of the StaticBytes<N> values built
StaticBytesValues == { <<3>>, <<0, 0>> }

LeafCalls ==
    { Call("bool", TRUE), Call("i64", -1), Call("i32", 1), Call("u64", 1), Call("u8", 2),
      Call("f64", 1), Call("char", 120), Call("str", <<120>>), Call("bytes", <<1, 2>>),
      Call("unit", 0), Call("unit_struct", 0), Call("none", 0), Call("unit_variant", <<120>>),
      Call("some", Call("u64", 1)), VersionSerialize(0), VersionSerialize(7),
      IdentifierSerialize(<<0, 11>>), BytesSerialize(<<1, 2>>), StaticBytesSerialize(<<3>>),
      Call("newtype_struct", <<"Other", Call("u64", 1)>>),
      Call("newtype_struct", <<"Bytes", Call("bytes", <<1, 2>>)>>) }

FieldNames == { <<97>>, <<98, 97>> }

BuildPool ==
    { Call("u64", 1), VersionSerialize(7), VersionSerialize(0), IdentifierSerialize(<<0, 11>>),
      Call("newtype_struct", <<"Version", Call("i64", -1)>>) } \cup UnsupportedCalls

EntriesOver(S) ==
    UNION { [1..n -> { <<Call("str", name), call>> : name \in FieldNames, call \in S }] :
            n \in 0..MaxFields }

DistinctKeys(entries) ==
    \A i, j \in 1..Len(entries) : i # j => entries[i][1] # entries[j][1]

StructsOver(S) == { Call("struct", e) : e \in { x \in EntriesOver(S) : DistinctKeys(x) } }
MapCallsOver(S) == { Call("map", e) : e \in EntriesOver(S) }
SeqCallsOver(S) == { Call("seq", e) : e \in UNION { [1..n -> S] : n \in 0..MaxArrLen } }

Containers1 == StructsOver(BuildPool) \cup MapCallsOver(BuildPool) \cup SeqCallsOver(BuildPool)

\* a container of the first level nested once more
Nested(call) ==
    { Call("struct", << <<Call("str", <<98>>), call>> >>),
      Call("map", << <<Call("str", <<97>>), Call("u64", 1)>>, <<Call("str", <<98>>), call>> >>),
      Call("tuple", <<Call("u64", 1), call>>),
      Call("some", call) }

BuildInputs ==
    LeafCalls \cup UnsupportedCalls \cup MismatchedCalls \cup WrappedCalls \cup Containers1
        \cup { StaticBytesSerialize(b) : b \in StaticBytesValues }
        \cup UNION { Nested(call) : call \in Containers1 }

\* documents
PayloadKeys == { <<97>>, <<98, 97>> }

PayloadPool ==
    { String(<<120>>), Integer(-1), UInteger(1), Bytes(<<1, 2>>), Identifier(<<0, 11>>), Null,
      Array(<<Integer(-1)>>), Map([key \in { <<98>> } |-> String(<<120>>)]) }

Payloads == { Map(m) : m \in UNION { [ks -> PayloadPool] : ks \in SUBSET PayloadKeys } }

Documents ==
    { Document(protocol_version, <<0, 11>>, <<120>>, revision, <<10>>, <<10, 10>>,
               created_at, updated_at, data) :
        protocol_version \in {0, 1}, revision \in {0, 1},
        created_at \in {None, Some(5), Some(-1)}, updated_at \in {None, Some(5)},
        data \in Payloads \cup {Null, Bool(TRUE)} }

\* wire items
WireLeaves ==
    { Item("null", 0), Item("bool", TRUE), Item("int", -1), Item("int", 1), Item("float", 1),
      Item("text", <<120>>), Item("bytes", <<1, 2>>) }

WireKeys ==
    { Item("text", <<97>>), Item("text", <<98, 97>>), Item("int", 1), Item("bytes", <<195, 169>>) }

WireArraysOver(S) == { Item("array", a) : a \in UNION { [1..n -> S] : n \in 0..MaxArrLen } }

WireMapsOver(S) ==
    { Item("map", e) :
        e \in UNION { [1..n -> { <<key, item>> : key \in WireKeys, item \in S }] :
                      n \in 0..MaxFields } }

WireContainers1 == WireArraysOver(WireLeaves) \cup WireMapsOver(WireLeaves)

DecodeInputs ==
    WireLeaves \cup WireContainers1
        \cup { Item("array", <<item>>) : item \in WireContainers1 }
        \cup { Item("map", << <<Item("text", <<97>>), item>> >>) : item \in WireContainers1 }

\* binary documents: the payload entries (their keys are shorter than any
\* field name) followed by one of several field sections: in canonical order
\* with and without a timestamp, with a version entry, out of order, with a
\* field missing, with fields of another wire type
WirePayloadPool ==
    WireLeaves \cup { Item("array", <<Item("int", -1)>>),
                      Item("map", << <<Item("text", <<98>>), Item("text", <<120>>)>> >>) }

WirePayloads ==
    { a \o b : a \in {<<>>} \cup { << <<Item("text", <<97>>), item>> >> : item \in WirePayloadPool },
               b \in {<<>>} \cup { << <<Item("text", <<98, 97>>), item>> >> : item \in WirePayloadPool } }

Field(key, item) == << <<Item("text", key), item>> >>

WireFields ==
    LET id == Field(IdKey, Item("bytes", <<0, 11>>))
        type == Field(TypeKey, Item("text", <<120>>))
        owner == Field(OwnerIdKey, Item("bytes", <<10, 10>>))
        revision == Field(RevisionKey, Item("int", 1))
        created == Field(CreatedAtKey, Item("int", 5))
        contract == Field(DataContractIdKey, Item("bytes", <<10>>))
        version == Field(ProtocolVersionKey, Item("int", 1))
    IN  { id \o type \o owner \o revision \o contract,
          id \o type \o owner \o revision \o created \o contract,
          id \o type \o owner \o revision \o contract \o version,
          type \o id \o owner \o revision \o contract,
          type \o owner \o revision \o contract,
          id \o type \o owner \o Field(RevisionKey, Item("int", -1)) \o contract,
          id \o Field(TypeKey, Item("bytes", <<120>>)) \o owner \o revision \o contract,
          id \o type \o owner \o revision \o Field(CreatedAtKey, Item("null", 0)) \o contract,
          Field(IdKey, Item("text", <<120>>)) \o type \o owner \o revision \o contract,
          id \o id \o type \o owner \o revision \o contract }

WireDocuments ==
    { Item("map", payload \o fields) : payload \in WirePayloads, fields \in WireFields }
        \cup { Item("null", 0) }

\* trees for bytes_as_arrays
WalkPool ==
    { Bytes(<<1, 2>>), Identifier(<<0, 11>>), StaticBytes(<<3>>), String(<<120>>), Null }

WalkTrees1 == ArraysOver(WalkPool) \cup MapsOver(WalkPool)

WalkPool2 ==
    { Bytes(<<1, 2>>), UInteger(1),
      Array(<<>>), Array(<<Null>>), Array(<<Identifier(<<0, 11>>), String(<<120>>)>>),
      Map([key \in { <<97>>, <<98, 97>> } |->
              IF key = <<97>> THEN StaticBytes(<<3>>) ELSE Array(<<Bytes(<<255>>)>>)]) }

WalkTrees2 == ArraysOver(WalkPool2) \cup MapsOver(WalkPool2)

WalkInputs == LeafValues \cup WalkTrees1 \cup WalkTrees2

\* identifiers: with and without leading zero bytes, one to three bytes, empty
IdentifierBytes ==
    { <<>>, <<0>>, <<0, 0>>, <<11>>, <<0, 11>>, <<1, 2>>, <<255, 255>>, <<0, 0, 1>>,
      <<11, 11, 11>>, <<255, 255, 255>> }

\* byte vectors given to Identifier::from: of the declared length and of others
IdentifierVecs == IdentifierBytes \cup { [i \in 1..DeclaredLength |-> 11] }

\* wire items offered to Identifier::deserialize: base58 text ("1C", "", "11",
\* "zz"), text with characters outside the alphabet ("0", "CO", "Il", "C C"),
\* byte strings, and items of every other kind
IdentifierWireInputs ==
    { Item("text", <<49, 67>>), Item("text", <<>>), Item("text", <<49, 49>>),
      Item("text", <<122, 122>>), Item("text", <<48>>), Item("text", <<67, 79>>),
      Item("text", <<73, 108>>), Item("text", <<67, 32, 67>>),
      Item("bytes", <<0, 11>>), Item("bytes", <<>>), Item("bytes", <<49, 67>>),
      Item("null", 0), Item("bool", TRUE), Item("int", -1), Item("int", 1), Item("float", 1),
      Item("array", <<Item("int", 0), Item("int", 11)>>), Item("array", <<Item("int", -1)>>),
      Item("array", <<>>),
      Item("map", << <<Item("text", <<97>>), Item("bytes", <<0, 11>>)>> >>) }

\* indexing: the tree of test::indexing with shorter names, flat containers
\* and leaves; indices in and out of range, keys present and absent
IndexedTree ==
    Map([key \in { <<97>> } |-> Map([name \in { <<98, 97>> } |-> Array(<<String(<<120>>)>>)])])

IndexedValues ==
    { IndexedTree, Array(<<>>), Array(<<String(<<120>>), Null>>), String(<<120>>), Null,
      Bytes(<<1, 2>>),
      Map([key \in { <<97>>, <<98, 97>> } |->
              IF key = <<97>> THEN UInteger(1) ELSE Array(<<Bool(TRUE), Integer(-1)>>)]) }

Indices ==
    { IndexInt(0), IndexInt(1), IndexInt(2),
      IndexString(<<97>>), IndexString(<<98, 97>>), IndexString(<<98>>) }

IndexChains == UNION { [1..n -> Indices] : n \in 1..3 }

AssignedValues == { Identifier(<<1, 1>>), Null }

\* calls on a SerializeMap: keys that are strings and one that is not; values
\* that build, a Version, a value that fails to build and one that panics
AccumulatorKeys == { Call("str", <<97>>), Call("str", <<98, 97>>), Call("u64", 1) }

AccumulatorValues ==
    { Call("u64", 1), Call("u64", 2), VersionSerialize(7),
      Call("tuple_struct", <<Call("u64", 1)>>),
      Call("newtype_struct", <<"Version", Call("i64", -1)>>) }

(***************************************************************************)
(* State machine: one library call per behaviour.                          *)
(***************************************************************************)
Bytes_(item) == [k |-> "bytes", v |-> item]
Doc(document) == [k |-> "document", v |-> document]
Id(data) == [k |-> "identifier", v |-> data]
Encoded(value, human_readable) ==
    [k |-> "value", v |-> value, human_readable |-> human_readable]

Init ==
    /\ op = "idle"
    /\ arg = None
    /\ res = None
    /\ src = None
    /\ to_walk = <<>>
    /\ pc = "idle"

\* serde_json::to_string(&value) (human_readable) / serde_cbor::to_vec(&value)
Serialize ==
    /\ op = "idle"
    /\ \E value \in SerializeInputs, human_readable \in BOOLEAN, seed \in Seeds :
          /\ op' = "serialize"
          /\ arg' = [value |-> value, human_readable |-> human_readable, seed |-> seed]
          /\ res' = Encode(value, human_readable, seed)
    /\ pc' = "done"
    /\ UNCHANGED <<src, to_walk>>

\* value.serialize(ToDashValue::default().with_skip_version(skip_version))
Build ==
    /\ op = "idle"
    /\ \E value \in BuildInputs, skip_version \in BOOLEAN :
          /\ op' = "build"
          /\ arg' = [value |-> value, skip_version |-> skip_version]
          /\ res' = ToDashValue(value, skip_version)
    /\ pc' = "done"
    /\ UNCHANGED <<src, to_walk>>

\* DocumentValue::deserialize(deserializer), of an item supplied by the
\* caller or of the item a serialize has just written (src then remembers the
\* value encoded and the wire form)
Decode ==
    /\ \/ /\ op = "idle"
          /\ \E item \in DecodeInputs :
                /\ arg' = [item |-> item]
                /\ res' = DocumentValueDeserialize(item)
          /\ src' = None
       \/ /\ op = "serialize"
          /\ arg' = [item |-> res]
          /\ res' = DocumentValueDeserialize(res)
          /\ src' = Encoded(arg.value, arg.human_readable)
    /\ op' = "decode"
    /\ pc' = "done"
    /\ UNCHANGED to_walk

\* document.to_bytes(), of a document built by the caller or of the document
\* a from_bytes has just returned (src then remembers the bytes decoded)
ToBytes ==
    /\ \E seed \in Seeds :
          \/ /\ op = "idle"
             /\ \E document \in Documents :
                   /\ arg' = [document |-> document, seed |-> seed]
                   /\ res' = to_bytes(document, seed)
             /\ src' = None
          \/ /\ op = "from_bytes" /\ src.k = "None" /\ res.k = "Ok"
             /\ arg' = [document |-> res.v, seed |-> seed]
             /\ res' = to_bytes(res.v, seed)
             /\ src' = Bytes_(arg.bytes)
    /\ op' = "to_bytes"
    /\ pc' = "done"
    /\ UNCHANGED to_walk

\* Document::from_bytes(bytes), of bytes supplied by the caller or of the
\* bytes a to_bytes has just returned (src then remembers the document)
FromBytes ==
    /\ \/ /\ op = "idle"
          /\ \E bytes \in WireDocuments :
                /\ arg' = [bytes |-> bytes]
                /\ res' = from_bytes(bytes)
          /\ src' = None
       \/ /\ op = "to_bytes" /\ src.k = "None" /\ res.k = "Ok"
          /\ arg' = [bytes |-> res.v]
          /\ res' = from_bytes(res.v)
          /\ src' = Doc(arg.document)
    /\ op' = "from_bytes"
    /\ pc' = "done"
    /\ UNCHANGED to_walk

\* Identifier::from(v), which the Document builder's setters call as well
IdentifierFrom ==
    /\ op = "idle"
    /\ \E v \in IdentifierVecs :
          /\ arg' = [v |-> v]
          /\ res' = Identifier_from(v)
    /\ op' = "identifier_from"
    /\ pc' = "done"
    /\ UNCHANGED <<src, to_walk>>

\* serde_json::to_string(&identifier) (human_readable) / serde_cbor::to_vec(&identifier)
EncodeIdentifier ==
    /\ op = "idle"
    /\ \E data \in IdentifierBytes, human_readable \in BOOLEAN :
          /\ arg' = [data |-> data, human_readable |-> human_readable]
          /\ res' = Emit(IdentifierSerialize(data), human_readable)
    /\ op' = "encode_identifier"
    /\ pc' = "done"
    /\ UNCHANGED <<src, to_walk>>

\* Identifier::deserialize by a text (human_readable) or binary deserializer
\* that lends its input (serde_json::from_str, serde_cbor::from_slice) or does
\* not (serde_json::from_reader, serde_cbor::from_reader), of an item supplied
\* by the caller or of the item an encode has just written (src then
\* remembers the identifier)
DecodeIdentifier ==
    /\ \/ /\ op = "idle"
          /\ \E item \in IdentifierWireInputs, human_readable \in BOOLEAN, borrowed \in BOOLEAN :
                /\ arg' = [item |-> item, human_readable |-> human_readable,
                            borrowed |-> borrowed]
                /\ res' = Identifier_deserialize(item, human_readable, borrowed)
          /\ src' = None
       \/ /\ op = "encode_identifier"
          /\ \E borrowed \in BOOLEAN :
                /\ arg' = [item |-> res, human_readable |-> arg.human_readable,
                            borrowed |-> borrowed]
                /\ res' = Identifier_deserialize(res, arg.human_readable, borrowed)
          /\ src' = Id(arg.data)
    /\ op' = "decode_identifier"
    /\ pc' = "done"
    /\ UNCHANGED to_walk

\* value.get(idx) / value.get_mut(idx)
Get ==
    /\ op = "idle"
    /\ \E value \in IndexedValues, idx \in Indices :
          /\ arg' = [value |-> value, idx |-> idx]
          /\ \/ op' = "get" /\ res' = get(value, idx)
             \/ op' = "get_mut" /\ res' = get_mut(value, idx)
    /\ pc' = "done"
    /\ UNCHANGED <<src, to_walk>>

\* &value[i1][i2]..
Index ==
    /\ op = "idle"
    /\ \E value \in IndexedValues, indices \in IndexChains :
          /\ arg' = [value |-> value, indices |-> indices]
          /\ res' = IndexChain(value, indices)
    /\ op' = "index"
    /\ pc' = "done"
    /\ UNCHANGED <<src, to_walk>>

\* value[i1][i2].. = assigned; the result is the tree after the assignment
IndexMut ==
    /\ op = "idle"
    /\ \E value \in IndexedValues, indices \in IndexChains, assigned \in AssignedValues :
          /\ arg' = [value |-> value, indices |-> indices, assigned |-> assigned]
          /\ res' = IndexMutAssign(value, indices, assigned)
    /\ op' = "index_mut"
    /\ pc' = "done"
    /\ UNCHANGED <<src, to_walk>>

\* SerializeMap::new(ignore_version): res holds the accumulator while it is
\* open, arg.calls the calls made on it and their results
MapNew ==
    /\ op = "idle"
    /\ \E ignore_version \in BOOLEAN :
          /\ arg' = [skip_version |-> ignore_version, calls |-> <<>>]
          /\ res' = SerializeMap_new(ignore_version)
    /\ op' = "serialize_map"
    /\ pc' = "open"
    /\ UNCHANGED <<src, to_walk>>

\* map.serialize_key(&key); an error leaves the accumulator with the caller
MapSerializeKey ==
    /\ op = "serialize_map" /\ pc = "open"
    /\ Len(arg.calls) < MaxCalls
    /\ \E key \in AccumulatorKeys :
          LET step == serialize_key(res, key)
          IN  /\ arg' = [arg EXCEPT !.calls =
                            Append(@, [method |-> "serialize_key", call |-> key, r |-> step.r])]
              /\ res' = step.self
    /\ UNCHANGED <<op, src, to_walk, pc>>

\* map.serialize_value(&value); a panic ends the process
MapSerializeValue ==
    /\ op = "serialize_map" /\ pc = "open"
    /\ Len(arg.calls) < MaxCalls
    /\ \E value \in AccumulatorValues :
          LET step == serialize_value(res, value)
          IN  /\ arg' = [arg EXCEPT !.calls =
                            Append(@, [method |-> "serialize_value", call |-> value, r |-> step.r])]
              /\ res' = IF step.r.k = "Panic" THEN step.r ELSE step.self
              /\ pc' = IF step.r.k = "Panic" THEN "panicked" ELSE "open"
    /\ UNCHANGED <<op, src, to_walk>>

\* map.end()
MapEnd ==
    /\ op = "serialize_map" /\ pc = "open"
    /\ res' = SerializeMap_end(res)
    /\ pc' = "done"
    /\ UNCHANGED <<op, arg, src, to_walk>>

\* value.bytes_as_arrays(): to_walk = vec![&mut self]; applied to a tree of
\* the caller, or once more to the tree the first application returned
BytesAsArrays ==
    /\ \/ /\ op = "idle"
          /\ \E value \in WalkInputs :
                /\ arg' = [value |-> value, applications |-> 1]
                /\ res' = value
       \/ /\ op = "bytes_as_arrays" /\ pc = "done" /\ arg.applications = 1
          /\ arg' = [arg EXCEPT !.applications = 2]
          /\ res' = res
    /\ op' = "bytes_as_arrays"
    /\ to_walk' = << <<>> >>
    /\ pc' = "walk"
    /\ UNCHANGED src

\* one iteration of `while let Some(value) = to_walk.pop()`
Walk ==
    /\ pc = "walk"
    /\ to_walk # <<>>
    /\ LET path == to_walk[Len(to_walk)]
           popped == SubSeq(to_walk, 1, Len(to_walk) - 1)
           value == Deref(res, path)
       IN  CASE value.k = "Array" ->
                  LET walked == WalkChildren(value, [i \in 1..Len(value.v) |-> IndexInt(i)])
                  IN  /\ res' = Assign(res, path, walked.value)
                      /\ to_walk' = popped \o [i \in 1..Len(walked.pushed) |->
                                                  Append(path, walked.pushed[i])]
             [] value.k = "Map" ->
                  \E keys \in iter_mut(value.v) :
                      LET walked == WalkChildren(value, [i \in 1..Len(keys) |-> IndexString(keys[i])])
                      IN  /\ res' = Assign(res, path, walked.value)
                          /\ to_walk' = popped \o [i \in 1..Len(walked.pushed) |->
                                                      Append(path, walked.pushed[i])]
             [] value.k \in {"Identifier", "Bytes", "StaticBytes"} ->
                  /\ res' = Assign(res, path, Null)
                  /\ to_walk' = popped
             [] OTHER ->
                  /\ res' = res
                  /\ to_walk' = popped
    /\ UNCHANGED <<op, arg, src, pc>>

\* the work-list is empty: bytes_as_arrays returns self
Return ==
    /\ pc = "walk"
    /\ to_walk = <<>>
    /\ pc' = "done"
    /\ UNCHANGED <<op, arg, res, src, to_walk>>

Next ==
    \/ Serialize
    \/ Build
    \/ Decode
    \/ ToBytes
    \/ FromBytes
    \/ IdentifierFrom
    \/ EncodeIdentifier
    \/ DecodeIdentifier
    \/ Get
    \/ Index
    \/ IndexMut
    \/ MapNew
    \/ MapSerializeKey
    \/ MapSerializeValue
    \/ MapEnd
    \/ BytesAsArrays
    \/ Walk
    \/ Return

Spec == Init /\ [][Next]_vars

\* bytes_as_arrays is sequential code: once called, its loop keeps running
\* until the work-list is empty and the function returns
FairSpec == Spec /\ WF_vars(Walk) /\ WF_vars(Return)

(***************************************************************************)
(* Properties                                                              *)
(***************************************************************************)

\* the keys of an emitted map item, in emission order
EmittedKeys(item) == [i \in 1..Len(item.v) |-> item.v[i][1].v]

\* C1: two Maps holding the same key->Value pairs (at every depth) whose
\* entries are iterated in different orders are encoded to the same sequence
\* of entries, in the text form and in the binary form: the encoding of the
\* Map does not depend on the iteration order.
C1_MapOrderIndependence ==
    op = "serialize" =>
        \A other_seed \in Seeds :
            Encode(arg.value, arg.human_readable, other_seed) = res

C1_Witness ==
    /\ op = "serialize"
    /\ arg.value.k = "Map"
    /\ arg.human_readable
    /\ \E key \in DOMAIN arg.value.v : arg.value.v[key] = NestedMap
    /\ \E other_seed \in Seeds :
          /\ iter(arg.value.v, other_seed) # iter(arg.value.v, arg.seed)
          /\ iter(NestedMap.v, other_seed) # iter(NestedMap.v, arg.seed)

\* shorter key first, then byte-wise lexicographic order for equal lengths
CanonicalLess(a, b) ==
    \/ Len(a) < Len(b)
    \/ /\ Len(a) = Len(b)
       /\ \E i \in 1..Len(a) : a[i] < b[i] /\ \A j \in 1..(i - 1) : a[j] = b[j]

RECURSIVE EmittedCanonically(_, _)
EmittedCanonically(value, item) ==
    CASE value.k = "Map" ->
            /\ item.k = "map"
            /\ Len(item.v) = Cardinality(DOMAIN value.v)
            /\ \A i \in 1..Len(item.v) : item.v[i][1].k = "text"
            /\ { EmittedKeys(item)[i] : i \in 1..Len(item.v) } = DOMAIN value.v
            /\ \A i, j \in 1..Len(item.v) :
                  i < j => CanonicalLess(EmittedKeys(item)[i], EmittedKeys(item)[j])
            /\ \A i \in 1..Len(item.v) :
                  EmittedCanonically(value.v[EmittedKeys(item)[i]], item.v[i][2])
      [] value.k = "Array" ->
            /\ item.k = "array"
            /\ Len(item.v) = Len(value.v)
            /\ \A i \in 1..Len(item.v) : EmittedCanonically(value.v[i], item.v[i])
      [] OTHER -> TRUE

\* C2: every Map, at every depth and at every encode, is emitted with its
\* entries in strictly ascending order of (key byte-length, then byte-wise
\* lexicographic order), each entry exactly once; the comparator orders any
\* two distinct keys, one way only.
C2_CanonicalSort ==
    op = "serialize" =>
        /\ EmittedCanonically(arg.value, res)
        /\ arg.value.k = "Map" =>
              \A a, b \in DOMAIN arg.value.v :
                  a # b => /\ KeyOrdering(a, b) \in {"Less", "Greater"}
                           /\ KeyOrdering(a, b) = "Less" <=> KeyOrdering(b, a) = "Greater"

\* keys "ab", "a", "ba" iterated in that order are emitted as "a", "ab", "ba"
C2_Witness ==
    /\ op = "serialize"
    /\ arg.value.k = "Map"
    /\ iter(arg.value.v, arg.seed) = << <<97, 98>>, <<97>>, <<98, 97>> >>
    /\ EmittedKeys(res) = << <<97>>, <<97, 98>>, <<98, 97>> >>

\* a field of the Version type: #[derive(Serialize)] struct Version(pub u32)
IsVersionTyped(call) ==
    /\ call.k = "newtype_struct"
    /\ call.v[1] = "Version"
    /\ call.v[2].k = "u32"

\* C3: building a record (a struct) that has a Version-typed field: with
\* skip_version the resulting Map has no key for that field, without it the
\* Map binds the key to a Version leaf carrying the field's integer.
C3_VersionSuppression ==
    (op = "build" /\ arg.value.k = "struct" /\ res.k = "Ok") =>
        \A i \in 1..Len(arg.value.v) :
            IsVersionTyped(arg.value.v[i][2]) =>
                LET name == arg.value.v[i][1].v
                IN  IF arg.skip_version
                    THEN name \notin DOMAIN res.v.v
                    ELSE /\ name \in DOMAIN res.v.v
                         /\ res.v.v[name] = Version(arg.value.v[i][2].v[2].v)

C3_Witness ==
    /\ op = "build"
    /\ arg.skip_version
    /\ arg.value = Call("struct", << <<Call("str", <<97>>), VersionSerialize(7)>>,
                                     <<Call("str", <<98, 97>>), Call("u64", 1)>> >>)
    /\ res = Ok(Map([key \in { <<98, 97>> } |-> UInteger(1)]))

\* an unsupported shape at the top level or at a value position at any depth
RECURSIVE HasUnsupported(_)
HasUnsupported(call) ==
    CASE call.k \in {"tuple_struct", "newtype_variant", "tuple_variant", "struct_variant"} -> TRUE
      [] call.k = "newtype_struct" -> HasUnsupported(call.v[2])
      [] call.k = "some" -> HasUnsupported(call.v)
      [] call.k \in {"seq", "tuple"} -> \E i \in 1..Len(call.v) : HasUnsupported(call.v[i])
      [] call.k \in {"map", "struct"} -> \E i \in 1..Len(call.v) : HasUnsupported(call.v[i][2])
      [] OTHER -> FALSE

\* a declared wrapper name around an inner value that builds to another leaf
\* kind: the fatal internal-invariant violation of the interception protocol
RECURSIVE HasWrapperMismatch(_)
HasWrapperMismatch(call) ==
    CASE call.k = "newtype_struct" ->
            \/ HasWrapperMismatch(call.v[2])
            \/ /\ call.v[1] \in {"Version", "StaticBytes", "Bytes", "identifier"}
               /\ serialize_newtype_struct(FALSE, call.v[1], call.v[2]).k = "Panic"
      [] call.k = "some" -> HasWrapperMismatch(call.v)
      [] call.k \in {"seq", "tuple"} -> \E i \in 1..Len(call.v) : HasWrapperMismatch(call.v[i])
      [] call.k \in {"map", "struct"} ->
            \E i \in 1..Len(call.v) : HasWrapperMismatch(call.v[i][2])
      [] OTHER -> FALSE

C4_RoundTrip ==
    /\ (op = "to_bytes" /\ src.k = "None") => res.k = "Ok"
    /\ (op = "from_bytes" /\ src.k = "document") => res = Ok(src.v)

\* every map of the item, at any depth, has text keys in strictly ascending
\* canonical order
RECURSIVE CanonicalItem(_)
CanonicalItem(item) ==
    CASE item.k = "map" ->
            /\ \A i \in 1..Len(item.v) : item.v[i][1].k = "text" /\ CanonicalItem(item.v[i][2])
            /\ \A i, j \in 1..Len(item.v) :
                  i < j => CanonicalLess(item.v[i][1].v, item.v[j][1].v)
      [] item.k = "array" -> \A i \in 1..Len(item.v) : CanonicalItem(item.v[i])
      [] OTHER -> TRUE

\* a canonical binary encoding of a document: canonical key order, no version
\* entry, the identifiers as byte strings, the type as text, the revision as
\* an unsigned integer, a timestamp (when present) as an integer
IsCanonicalDocument(item) ==
    /\ item.k = "map"
    /\ CanonicalItem(item)
    /\ LET at(key) == { i \in 1..Len(item.v) : item.v[i][1].v = key }
           kinds(key) == { item.v[i][2].k : i \in at(key) }
       IN  /\ at(ProtocolVersionKey) = {}
           /\ \A key \in { IdKey, DataContractIdKey, OwnerIdKey } : kinds(key) = {"bytes"}
           /\ kinds(TypeKey) = {"text"}
           /\ kinds(RevisionKey) = {"int"}
           /\ \A i \in at(RevisionKey) : item.v[i][2].v >= 0
           /\ \A key \in { CreatedAtKey, UpdatedAtKey } : kinds(key) \subseteq {"int"}

\* C5 (as claimed): a canonical binary encoding b of a document is decoded by
\* from_bytes, and to_bytes of the decoded document gives b back.
C5_DecodeEncode ==
    /\ (op = "from_bytes" /\ src.k = "None" /\ IsCanonicalDocument(arg.bytes)) => res.k = "Ok"
    /\ (op = "to_bytes" /\ src.k = "bytes" /\ IsCanonicalDocument(src.v)) => res = Ok(src.v)

\* the transform as documented: every byte leaf becomes the Array of its
\* bytes, everything else is left as it is
RECURSIVE BytesAsArraysDocumented(_)
BytesAsArraysDocumented(value) ==
    CASE value.k \in {"Identifier", "Bytes", "StaticBytes"} -> ByteArray(value.v)
      [] value.k \in {"Array", "Map"} ->
            [value EXCEPT !.v = [x \in DOMAIN value.v |-> BytesAsArraysDocumented(value.v[x])]]
      [] OTHER -> value

RECURSIVE HasByteLeaf(_)
HasByteLeaf(value) ==
    CASE value.k \in {"Identifier", "Bytes", "StaticBytes"} -> TRUE
      [] value.k \in {"Array", "Map"} -> \E x \in DOMAIN value.v : HasByteLeaf(value.v[x])
      [] OTHER -> FALSE

Returned == op = "bytes_as_arrays" /\ pc = "done"

\* C7 (as claimed): on a tree whose root is an Array or a Map, bytes_as_arrays
\* replaces every Identifier, Bytes and StaticBytes leaf at any depth by the
\* Array of its bytes as UInteger leaves and leaves every other leaf, every
\* key and the shape of every container unchanged.
C7_ContainerRoot ==
    (Returned /\ arg.applications = 1 /\ is_container(arg.value)) =>
        res = BytesAsArraysDocumented(arg.value)

\* C8 (as claimed): when the tree is itself a single Identifier, Bytes or
\* StaticBytes leaf, bytes_as_arrays returns the Array of that leaf's bytes.
C8_LeafRoot ==
    (Returned /\ arg.applications = 1 /\ arg.value.k \in {"Identifier", "Bytes", "StaticBytes"}) =>
        res = ByteArray(arg.value.v)

\* C9 (as claimed): on a tree without Identifier, Bytes and StaticBytes
\* leaves, bytes_as_arrays applied once or twice returns the input tree.
C9_IdentityWithoutBytes ==
    (Returned /\ ~HasByteLeaf(arg.value)) => res = arg.value

RECURSIVE HasWrapperLeaf(_)
HasWrapperLeaf(value) ==
    CASE value.k \in {"Identifier", "Version", "StaticBytes"} -> TRUE
      [] value.k \in {"Array", "Map"} -> \E x \in DOMAIN value.v : HasWrapperLeaf(value.v[x])
      [] OTHER -> FALSE

\* byte strings are decoded to Bytes and integers to Integer, at every depth
RECURSIVE DecodedPlainly(_, _)
DecodedPlainly(item, value) ==
    CASE item.k = "bytes" -> value = Bytes(item.v)
      [] item.k = "int" -> value = Integer(item.v)
      [] item.k = "array" ->
            /\ value.k = "Array"
            /\ Len(value.v) = Len(item.v)
            /\ \A i \in 1..Len(item.v) : DecodedPlainly(item.v[i], value.v[i])
      [] item.k = "map" ->
            /\ value.k = "Map"
            /\ \A key \in DOMAIN value.v :
                  \E i \in 1..Len(item.v) :
                      /\ item.v[i][1].v = key
                      /\ \A j \in (i + 1)..Len(item.v) : item.v[j][1].v # key
                      /\ DecodedPlainly(item.v[i][2], value.v[key])
      [] OTHER -> TRUE

\* C10: a tree the Generic Decoder returns, whatever the wire input, has no
\* Identifier, no Version and no StaticBytes leaf at any depth: a byte string
\* is decoded to Bytes and an integer to a plain Integer leaf.  The same holds
\* of the data a decoded Document carries.
C10_NoWrapperLeaves ==
    /\ (op = "decode" /\ res.k = "Ok") =>
          ~HasWrapperLeaf(res.v) /\ DecodedPlainly(arg.item, res.v)
    /\ (op = "from_bytes" /\ res.k = "Ok") => ~HasWrapperLeaf(res.v.data)

C10_Witness ==
    /\ op = "decode"
    /\ arg.item = Item("map", << <<Item("text", <<97>>),
                                   Item("array", <<Item("bytes", <<1, 2>>), Item("int", -1)>>)>> >>)
    /\ res = Ok(Map([key \in { <<97>> } |-> Array(<<Bytes(<<1, 2>>), Integer(-1)>>)]))

\* a tree of plain shapes: Null, Bool, Integer, UInteger, String, Array, Map,
\* and Bytes where the wire form is binary
RECURSIVE IsPlain(_, _)
IsPlain(value, human_readable) ==
    CASE value.k \in {"Null", "Bool", "Integer", "UInteger", "String"} -> TRUE
      [] value.k = "Bytes" -> ~human_readable
      [] value.k \in {"Array", "Map"} ->
            \A x \in DOMAIN value.v : IsPlain(value.v[x], human_readable)
      [] OTHER -> FALSE

\* the same containers, keys and element order, and the same boolean,
\* numeric, text and byte values (a number may come back in either integer
\* variant)
RECURSIVE SameStructure(_, _)
SameStructure(value, decoded) ==
    CASE value.k \in {"Integer", "UInteger"} ->
            decoded.k \in {"Integer", "UInteger"} /\ decoded.v = value.v
      [] value.k \in {"Array", "Map"} ->
            /\ decoded.k = value.k
            /\ DOMAIN decoded.v = DOMAIN value.v
            /\ \A x \in DOMAIN value.v : SameStructure(value.v[x], decoded.v[x])
      [] OTHER -> decoded = value

\* C11 (as claimed): for every tree of plain shapes, decoding the tree's
\* encoding with the Generic Decoder succeeds and yields a tree with the same
\* containers, keys, element order and scalar values, non-negative numbers
\* included.
C11_DecoderInverse ==
    (op = "decode" /\ src.k = "value" /\ IsPlain(src.v, src.human_readable)) =>
        /\ res.k = "Ok"
        /\ SameStructure(src.v, res.v)

\* C12 (as claimed): an Identifier is encoded in text mode as the base58
\* string of its bytes and in binary mode as the raw byte string, and decoding
\* what was encoded gives back an Identifier holding exactly the original
\* bytes, whichever deserializer of the wire form does the decoding.
C12_IdentifierRoundTrip ==
    /\ op = "encode_identifier" =>
          res = IF arg.human_readable THEN Item("text", bs58_encode(arg.data))
                ELSE Item("bytes", arg.data)
    /\ (op = "decode_identifier" /\ src.k = "identifier") => res = Ok(Identifier(src.v))

\* C13 (as claimed): no operation yields an Identifier holding a number of
\* bytes other than the declared length: From<Vec<u8>> (which the Document
\* builder's setters use), the text decode, the binary decode and the decode
\* of a Document either reject a byte sequence of another length or are
\* given one of the declared length.
C13_WrongLengthRejected ==
    /\ (op = "identifier_from" /\ res.k = "Identifier") => Len(res.v) = DeclaredLength
    /\ (op = "decode_identifier" /\ res.k = "Ok") => Len(res.v.v) = DeclaredLength
    /\ (op = "from_bytes" /\ res.k = "Ok") =>
          /\ Len(res.v.id) = DeclaredLength
          /\ Len(res.v.data_contract_id) = DeclaredLength
          /\ Len(res.v.owner_id) = DeclaredLength

\* a string (as text, or as the bytes of one) all of whose characters are of
\* the base58 alphabet
IsBase58Text(item) ==
    /\ item.k \in {"text", "bytes"}
    /\ \A i \in 1..Len(item.v) : \E j \in 1..Len(Base58Alphabet) : item.v[i] = Base58Alphabet[j]

\* C14: decoding an Identifier from a malformed wire item (text form: a
\* string that is not valid base58, or no string at all; binary form: any
\* item that is not a raw byte string) returns a deserialization error to the
\* caller: it never aborts and never returns an Identifier.
C14_MalformedRejected ==
    op = "decode_identifier" =>
        /\ res.k \in {"Ok", "Err"}
        /\ (arg.human_readable /\ ~IsBase58Text(arg.item)) => res = Err("DeserializationError")
        /\ (~arg.human_readable /\ arg.item.k # "bytes") => res = Err("DeserializationError")

\* "CO" has a character outside the alphabet; a text item is no byte string
C14_Witness ==
    /\ op = "decode_identifier"
    /\ res = Err("DeserializationError")
    /\ \/ arg = [item |-> Item("text", <<67, 79>>), human_readable |-> TRUE, borrowed |-> TRUE]
       \/ arg = [item |-> Item("text", <<49, 67>>), human_readable |-> FALSE, borrowed |-> TRUE]

\* v is an Array and idx an integer within bounds, or v is a Map and idx a
\* present string key
HasChild(v, idx) ==
    \/ v.k = "Array" /\ idx.k = "Int" /\ idx.v >= 0 /\ idx.v < Len(v.v)
    \/ v.k = "Map" /\ idx.k = "String" /\ idx.v \in DOMAIN v.v

Position(idx) == IF idx.k = "Int" THEN idx.v + 1 ELSE idx.v

ChildOf(v, idx) == v.v[Position(idx)]

RECURSIVE HasDescendant(_, _)
HasDescendant(v, indices) ==
    \/ indices = <<>>
    \/ HasChild(v, Head(indices)) /\ HasDescendant(ChildOf(v, Head(indices)), Tail(indices))

RECURSIVE DescendantOf(_, _)
DescendantOf(v, indices) ==
    IF indices = <<>> THEN v ELSE DescendantOf(ChildOf(v, Head(indices)), Tail(indices))

\* after differs from before in the addressed descendant only, which is assigned
RECURSIVE ChangedOnlyAt(_, _, _, _)
ChangedOnlyAt(before, after, indices, assigned) ==
    IF indices = <<>> THEN after = assigned
    ELSE /\ after.k = before.k
         /\ DOMAIN after.v = DOMAIN before.v
         /\ \A x \in DOMAIN before.v :
               IF x = Position(Head(indices))
               THEN ChangedOnlyAt(before.v[x], after.v[x], Tail(indices), assigned)
               ELSE after.v[x] = before.v[x]

\* C15: get and get_mut never panic and return the child exactly when the
\* value is an Array and the index an integer within bounds, or the value is
\* a Map and the index a present key, and None otherwise; Index and IndexMut
\* return that same child when get returns Some and panic otherwise; an
\* assignment through IndexMut changes the addressed child only.
C15_Indexing ==
    /\ op = "get" =>
          res = IF HasChild(arg.value, arg.idx) THEN Some(ChildOf(arg.value, arg.idx)) ELSE None
    /\ op = "get_mut" =>
          IF HasChild(arg.value, arg.idx)
          THEN res.k = "Some" /\ Deref(arg.value, res.v) = ChildOf(arg.value, arg.idx)
          ELSE res = None
    /\ op = "index" =>
          /\ IF HasDescendant(arg.value, arg.indices)
             THEN res = Ok(DescendantOf(arg.value, arg.indices))
             ELSE res.k = "Panic"
          /\ Len(arg.indices) = 1 =>
                LET got == get(arg.value, arg.indices[1])
                IN  IF got.k = "Some" THEN res = Ok(got.v) ELSE res.k = "Panic"
    /\ op = "index_mut" =>
          IF HasDescendant(arg.value, arg.indices)
          THEN res.k = "Ok" /\ ChangedOnlyAt(arg.value, res.v, arg.indices, arg.assigned)
          ELSE res.k = "Panic"

\* test::indexing: value["alpha"]["bravo"] = Identifier(..) replaces the array
\* under "bravo" and nothing else
C15_Witness ==
    /\ op = "index_mut"
    /\ arg.value = IndexedTree
    /\ arg.indices = <<IndexString(<<97>>), IndexString(<<98, 97>>)>>
    /\ arg.assigned = Identifier(<<1, 1>>)
    /\ res = Ok(Map([key \in { <<97>> } |->
                       Map([name \in { <<98, 97>> } |-> Identifier(<<1, 1>>)])]))

\* a Map, at any depth, one of whose entries is a Version leaf
RECURSIVE HasVersionEntry(_)
HasVersionEntry(value) ==
    CASE value.k = "Map" ->
            \E key \in DOMAIN value.v :
                value.v[key].k = "Version" \/ HasVersionEntry(value.v[key])
      [] value.k = "Array" -> \E i \in 1..Len(value.v) : HasVersionEntry(value.v[i])
      [] OTHER -> FALSE

\* C16 (as claimed): with skip_version = true the tree the builder returns
\* has no Version leaf as a Map entry at any depth, also when the Version
\* field belongs to a struct or map nested in a struct field, a map value or
\* a sequence element.
C16_NestedSkipVersion ==
    (op = "build" /\ arg.skip_version /\ res.k = "Ok") => ~HasVersionEntry(res.v)

\* C17 (as claimed): the declared wrapper name "StaticBytes" around an inner
\* value that builds to a byte string is built into a StaticBytes leaf holding
\* those bytes, and a StaticBytes<N> value is built into a StaticBytes leaf,
\* not a Bytes leaf.
C17_StaticBytesIntercepted ==
    /\ (op = "build" /\ arg.value.k = "newtype_struct" /\ arg.value.v[1] = "StaticBytes") =>
          LET inner == ToDashValue(arg.value.v[2], arg.skip_version)
          IN  (inner.k = "Ok" /\ inner.v.k = "Bytes") => res = Ok(StaticBytes(inner.v.v))
    /\ op = "build" =>
          \A b \in StaticBytesValues :
              arg.value = StaticBytesSerialize(b) => res = Ok(StaticBytes(b))

\* the leaf a declared wrapper name expects of its inner value: an unsigned
\* integer for Version, a byte string for the byte wrappers
ExpectedShape(name, leaf) ==
    IF name = "Version" THEN leaf.k = "UInteger" ELSE leaf.k \in {"Bytes", "StaticBytes"}

\* C18: when the builder meets a declared wrapper name and the inner value
\* builds to a leaf that is not of the expected shape, the build is fatal: no
\* Ok value, no coerced leaf, no untagged inner value is returned, at the top
\* level or nested; an error from building the inner value is returned as it
\* is.
C18_WrapperMismatchFatal ==
    /\ (op = "build" /\ arg.value.k = "newtype_struct"
           /\ arg.value.v[1] \in {"Version", "StaticBytes", "Bytes", "identifier"}) =>
          LET inner == ToDashValue(arg.value.v[2], arg.skip_version)
          IN  /\ inner.k = "Err" => res = inner
              /\ (inner.k = "Ok" /\ ~ExpectedShape(arg.value.v[1], inner.v)) => res.k = "Panic"
    /\ (op = "build" /\ HasWrapperMismatch(arg.value)) => res.k # "Ok"

\* "Version" around a signed integer
C18_Witness ==
    /\ op = "build"
    /\ arg.value = Call("newtype_struct", <<"Version", Call("i64", -1)>>)
    /\ res.k = "Panic"

\* the number of Array and Map containers at or below a node
RECURSIVE CountContainers(_)
RECURSIVE SumCounts(_)
CountContainers(value) ==
    IF value.k = "Array" THEN 1 + SumCounts(value.v)
    ELSE IF value.k = "Map"
    THEN LET keys == SetToSeq(DOMAIN value.v)
         IN  1 + SumCounts([i \in 1..Len(keys) |-> value.v[keys[i]]])
    ELSE 0

SumCounts(values) ==
    IF values = <<>> THEN 0 ELSE CountContainers(Head(values)) + SumCounts(Tail(values))

\* the containers still to be processed: those at or below a work-list entry,
\* counted once for every entry they are under
Pending == SumCounts([i \in 1..Len(to_walk) |-> Deref(res, to_walk[i])])

IsPrefix(p, q) == Len(p) <= Len(q) /\ SubSeq(q, 1, Len(p)) = p

\* no node is on the work-list twice or below another entry, and every entry
\* but the root is a container
WorkListInv ==
    pc = "walk" =>
        /\ \A i, j \in 1..Len(to_walk) : i # j => ~IsPrefix(to_walk[i], to_walk[j])
        /\ \A i \in 1..Len(to_walk) :
              to_walk[i] # <<>> => is_container(Deref(res, to_walk[i]))

\* one iteration takes one entry off the work-list and, when it is a
\* container, leaves exactly one container fewer to be processed
WorkListStep ==
    (pc = "walk" /\ to_walk # <<>>) =>
        /\ pc' = "walk"
        /\ \A i \in 1..(Len(to_walk) - 1) : to_walk'[i] = to_walk[i]
        /\ \A i \in Len(to_walk)..Len(to_walk') :
              /\ Len(to_walk'[i]) = Len(to_walk[Len(to_walk)]) + 1
              /\ IsPrefix(to_walk[Len(to_walk)], to_walk'[i])
        /\ Pending' = IF is_container(Deref(res, to_walk[Len(to_walk)]))
                      THEN Pending - 1 ELSE Pending

\* what the loop computes, whatever the order: the children of every
\* container of the input handed to replace_bytes_with_array once
RECURSIVE WalkedTree(_)
WalkedTree(value) ==
    CASE value.k \in {"Array", "Map"} ->
            [value EXCEPT !.v =
                [x \in DOMAIN value.v |->
                    IF is_container(value.v[x]) THEN WalkedTree(value.v[x])
                    ELSE replace_bytes_with_array(value.v[x])]]
      [] value.k \in {"Identifier", "Bytes", "StaticBytes"} -> Null
      [] OTHER -> value

\* C19: bytes_as_arrays terminates on every tree: it walks a work-list on
\* which each container of the tree is placed at most once and processed
\* exactly once (every iteration removes one entry and one pending
\* container), the work-list becomes empty and the function returns, and the
\* tree returned is the same whichever order the containers are taken in.
C19_WorkListTerminates ==
    /\ []WorkListInv
    /\ [][WorkListStep]_vars
    /\ [](pc = "walk" => Pending <= CountContainers(arg.value) + CountContainers(res))
    /\ [](Returned =>
            /\ to_walk = <<>>
            /\ res = IF arg.applications = 1 THEN WalkedTree(arg.value)
                      ELSE WalkedTree(WalkedTree(arg.value)))
    /\ (pc = "walk") ~> (pc = "done")

\* a Map two of whose entries are containers, one of them nested further,
\* walked to the end
C19_Witness ==
    /\ Returned
    /\ arg.applications = 1
    /\ arg.value.k = "Map"
    /\ \E a, b \in DOMAIN arg.value.v :
          /\ a # b
          /\ arg.value.v[a].k = "Map"
          /\ arg.value.v[b] = Array(<<Identifier(<<0, 11>>), String(<<120>>)>>)
          /\ \E c \in DOMAIN arg.value.v[a].v : is_container(arg.value.v[a].v[c])
    /\ res = WalkedTree(arg.value)

\* the key waiting for its value just before call i: the key of the latest
\* successful serialize_key, unless a serialize_value came after it
PendingBefore(calls, i) ==
    LET keyed == { j \in 1..(i - 1) : calls[j].method = "serialize_key" /\ calls[j].r.k = "Ok" }
        last == CHOOSE j \in keyed : \A x \in keyed : x <= j
    IN  IF keyed = {} THEN None
        ELSE IF \E j \in (last + 1)..(i - 1) : calls[j].method = "serialize_value" THEN None
        ELSE Some(calls[last].call.v)

\* call i is a key/value pair under key whose value was built and not skipped
KeptPair(calls, skip_version, i, key) ==
    /\ calls[i].method = "serialize_value"
    /\ PendingBefore(calls, i) = Some(key)
    /\ ToDashValue(calls[i].call, FALSE).k = "Ok"
    /\ ~(skip_version /\ ToDashValue(calls[i].call, FALSE).v.k = "Version")

KeptPairs(calls, skip_version, key) ==
    { i \in 1..Len(calls) : KeptPair(calls, skip_version, i, key) }

BoundKeys(calls, skip_version) ==
    { calls[j].call.v : j \in { x \in 1..Len(calls) :
        /\ calls[x].method = "serialize_key" /\ calls[x].r.k = "Ok"
        /\ KeptPairs(calls, skip_version, calls[x].call.v) # {} } }

\* C20: over any sequence of calls on a SerializeMap, every serialize_value
\* consumes the pending key (also when the value is skipped as a Version or
\* fails to build), a second serialize_key replaces the pending key, a
\* serialize_value with no pending key panics, and the map held and returned by
\* end() binds exactly the keys of the pairs that were not skipped, each to the
\* value of the last such pair
C20_Accumulator ==
    op = "serialize_map" =>
        LET calls == arg.calls
            n == Len(calls)
            map == IF pc = "done" THEN res.v.v ELSE res.map
        IN  /\ pc = "open" => res.next_key = PendingBefore(calls, n + 1)
            /\ \A i \in 1..n :
                  (calls[i].method = "serialize_value" /\ PendingBefore(calls, i) = None)
                      => (calls[i].r.k = "Panic" /\ i = n /\ pc = "panicked")
            /\ pc = "done" => (res.k = "Ok" /\ res.v.k = "Map")
            /\ pc \in {"open", "done"} =>
                  /\ DOMAIN map = BoundKeys(calls, arg.skip_version)
                  /\ \A key \in DOMAIN map :
                        LET kept == KeptPairs(calls, arg.skip_version, key)
                            last == CHOOSE i \in kept : \A x \in kept : x <= i
                        IN  map[key] = ToDashValue(calls[last].call, FALSE).v

\* end() after a pair was kept under a key, a later Version under the same key
\* was skipped, and the map still binds the key to the earlier value
C20_Witness ==
    /\ op = "serialize_map" /\ pc = "done" /\ arg.skip_version
    /\ \E i, j \in 1..Len(arg.calls) :
          /\ i < j
          /\ KeptPair(arg.calls, TRUE, i, <<97>>)
          /\ arg.calls[j].method = "serialize_value"
          /\ arg.calls[j].call = VersionSerialize(7)
          /\ PendingBefore(arg.calls, j) = Some(<<97>>)
          /\ arg.calls[j].r.k = "Ok"
          /\ res.v.v[<<97>>] = ToDashValue(arg.calls[i].call, FALSE).v

====
